---- MODULE Spec2Model ----
(***************************************************************************)
(* Scaffolding CLI of next-auth-prisma-starter.                            *)
(*                                                                         *)
(* The repository holds four revisions of the same script and one helper  *)
(* module:                                                                 *)
(*   "cli_confirm"  src/bin/cli.js lines 1-213   (cleanup asks the         *)
(*                                                operator first)          *)
(*   "cli_rmsync"   src/bin/cli.js lines 215-477 (cleanup with fs.rmSync)  *)
(*   "part_001"     src/unnamed/part_001         (auto-installs helpers,   *)
(*                                                chdir into the project)  *)
(*   "part_003"     src/unnamed/part_003         (auto-installs rimraf)    *)
(*   "setup_orm"    src/unnamed/part_002         (setupORM(targetDir,orm)) *)
(*                                                                         *)
(* One behaviour of the model is one invocation of one of them.  Strings   *)
(* whose characters matter (the project name, .gitignore) are sequences of *)
(* one-character strings.                                                  *)
(***************************************************************************)
EXTENDS Integers, Sequences, FiniteSets, TLC

VARIABLES
    variant,      \* which script runs
    name,         \* process.argv[2]; <<>> when the argument is missing
    orm,          \* second argument of setupORM
    pc,           \* position of the script
    exited,       \* the process has terminated
    exitCode,     \* its exit status (0 until process.exit(1))
    cwd,          \* process.cwd(): "base" or "project"
    proj,         \* the target directory <base>/<name> and what it holds
    verdict,      \* outcome of validateProjectName
    prereq,       \* outcome of checkSystemRequirements
    log,          \* the steps started so far, in order
    failedStep,   \* the step whose failure ended the run, "none" otherwise
    msgs,         \* kinds of messages printed
    mutated,      \* a write, create, remove or install has been performed
    cleanupCalls, \* number of calls of cleanup
    cleanupPaths, \* the paths cleanup was called with
    rmAttempts,   \* number of removal calls made by cleanup
    prompts,      \* number of confirmation prompts shown
    answers,      \* the operator's answers to the prompts
    preCleanup,   \* the target directory as it was when cleanup was called
    sigint,       \* SIGINT: "none"; "group" (sent to the foreground process
                  \* group while the subprocess of the step at pc runs);
                  \* "killedChild" (that subprocess was killed by it);
                  \* "pending" (received by node alone, handler not yet
                  \* run); "default" (arrived before the handler was
                  \* registered)
    dirAtSigint   \* whether the target directory existed when SIGINT arrived

vars == <<variant, name, orm, pc, exited, exitCode, cwd, proj, verdict,
          prereq, log, failedStep, msgs, mutated, cleanupCalls,
          cleanupPaths, rmAttempts, prompts, answers, preCleanup, sigint,
          dirAtSigint>>

-----------------------------------------------------------------------------
(* Bounds *)

MaxNameLen == 3
MaxGitignoreLines == 2

-----------------------------------------------------------------------------
(* Characters *)

LowerSeq == <<"a","b","c","d","e","f","g","h","i","j","k","l","m",
              "n","o","p","q","r","s","t","u","v","w","x","y","z">>
UpperSeq == <<"A","B","C","D","E","F","G","H","I","J","K","L","M",
              "N","O","P","Q","R","S","T","U","V","W","X","Y","Z">>
DigitSeq == <<"0","1","2","3","4","5","6","7","8","9">>

Range(s) == {s[i] : i \in 1..Len(s)}

\* the character class [a-zA-Z0-9-_] : three ranges and the two literals
\* "-" and "_" (after the range 0-9 the "-" is a literal)
NameClass == Range(LowerSeq) \cup Range(UpperSeq) \cup Range(DigitSeq)
             \cup {"-", "_"}

\* String.prototype.toLowerCase on one character
LowerChar(c) ==
    IF c \in Range(UpperSeq)
    THEN LowerSeq[CHOOSE i \in 1..Len(UpperSeq) : UpperSeq[i] = c]
    ELSE c

toLowerCase(s) == [i \in 1..Len(s) |-> LowerChar(s[i])]

\* String.prototype.includes
includes(s, pat) ==
    \E i \in 0..(Len(s) - Len(pat)) : SubSeq(s, i + 1, i + Len(pat)) = pat

-----------------------------------------------------------------------------
(* validateProjectName *)

reservedNames ==
    { <<"n","o","d","e","_","m","o","d","u","l","e","s">>,
      <<"p","u","b","l","i","c">>,
      <<"s","r","c">>,
      <<"t","e","s","t">>,
      <<"b","u","i","l","d">>,
      <<"d","i","s","t">> }

\* length of the longest run of class characters of s starting at index i
RECURSIVE ClassRun(_, _)
ClassRun(s, i) ==
    IF i > Len(s) \/ s[i] \notin NameClass THEN 0 ELSE 1 + ClassRun(s, i + 1)

\* /^[a-zA-Z0-9-_]+$/.test(s): from the start, one or more class characters,
\* then the end of the input (no m flag: $ is the end of the string only)
AnchoredTestUnanchoredEnd(s) == ClassRun(s, 1) >= 1
AnchoredTest(s) == ClassRun(s, 1) >= 1 /\ ClassRun(s, 1) = Len(s)

\* /[^a-zA-Z0-9-_]/.test(s): some character outside the class
NegatedTest(s) == \E i \in 1..Len(s) : s[i] \notin NameClass

UsesAnchoredRegex(v) == v \in {"cli_confirm", "cli_rmsync"}

\* the checks of validateProjectName in the order of the code; every verdict
\* but "ok" is followed by process.exit(1)
validateProjectName(v, n, targetExists) ==
    IF n = <<>> THEN "missing"
    ELSE IF (IF UsesAnchoredRegex(v) THEN ~AnchoredTest(n) ELSE NegatedTest(n))
         THEN "invalidChars"
    ELSE IF toLowerCase(n) \in reservedNames THEN "reserved"
    ELSE IF targetExists THEN "exists"
    ELSE "ok"

-----------------------------------------------------------------------------
(* The target directory *)

DotEnv == <<".","e","n","v">>
NL == <<"\n">>
Yes == <<"y","e","s">>
BinName == <<"b","i","n">>

\* name field of the template's package.json
TemplateName == <<"n","e","x","t","-","a","u","t","h">>

\* no entry at the target path
NoProject ==
    [exists |-> FALSE, bin |-> FALSE, git |-> "none", env |-> "absent",
     envExample |-> "absent", hasGitignore |-> FALSE, gitignore |-> <<>>,
     hasPkg |-> FALSE, pkgName |-> <<>>, pkgBin |-> FALSE,
     pkgVersion |-> "none", nodeModules |-> FALSE, ormFiles |-> {}]

\* an entry at the target path that this run did not make
ForeignProject == [NoProject EXCEPT !.exists = TRUE]

\* the lines of a file: the pieces between "\n" separators
RECURSIVE SplitLines(_, _, _)
SplitLines(s, i, cur) ==
    IF i > Len(s) THEN <<cur>>
    ELSE IF s[i] = "\n" THEN <<cur>> \o SplitLines(s, i + 1, <<>>)
    ELSE SplitLines(s, i + 1, Append(cur, s[i]))

Lines(s) == SplitLines(s, 1, <<>>)

\* number of lines of a .gitignore that are the entry ".env"
CountEnvEntries(s) ==
    Cardinality({i \in 1..Len(Lines(s)) : Lines(s)[i] = DotEnv})

\* the .gitignore branch of createEnvFile: write ".env\n" when the file is
\* absent, append "\n.env\n" when its text does not include ".env"
ensureGitignore(p) ==
    IF ~p.hasGitignore
    THEN [p EXCEPT !.hasGitignore = TRUE, !.gitignore = DotEnv \o NL]
    ELSE IF ~includes(p.gitignore, DotEnv)
         THEN [p EXCEPT !.gitignore = @ \o NL \o DotEnv \o NL]
         ELSE p

\* createEnvFile(projectPath); failAt = 0: nothing throws; failAt = k: the
\* k-th filesystem call throws (1 mkdir, 2 write .env, 3 write .env.example,
\* 4 the .gitignore write, read or append) and the function returns false
EnvFailPoints == 0..4

createEnvFileNoExample(p, failAt) ==
    LET p1 == IF failAt = 1 THEN p ELSE [p EXCEPT !.exists = TRUE]
        p2 == IF failAt \in {1, 2} THEN p1 ELSE [p1 EXCEPT !.env = "envTemplate"]
        p4 == IF failAt \in {1, 2, 3, 4} THEN p2 ELSE ensureGitignore(p2)
    IN  [ok |-> failAt = 0, proj |-> p4]
createEnvFile(p, failAt) ==
    LET p1 == IF failAt = 1 THEN p ELSE [p EXCEPT !.exists = TRUE]
        p2 == IF failAt \in {1, 2} THEN p1 ELSE [p1 EXCEPT !.env = "envTemplate"]
        p3 == IF failAt \in {1, 2, 3} THEN p2
              ELSE [p2 EXCEPT !.envExample = "envTemplate"]
        p4 == IF failAt \in {1, 2, 3, 4} THEN p3 ELSE ensureGitignore(p3)
    IN  [ok |-> failAt = 0, proj |-> p4]

-----------------------------------------------------------------------------
(* cleanup *)

\* path.join(process.cwd(), process.argv[2] || "") as the top-level catch
\* handler computes it: the target directory while the working directory is
\* the base directory, <target>/<name> after process.chdir(projectPath)
CatchPath(dir) == IF dir = "base" THEN "project" ELSE "nested"

\* fs.existsSync of the two paths cleanup can be given; <target>/<name>
\* exists only when the project is named like an entry of the template
existsSyncAlways(path, p, n) == TRUE
existsSync(path, p, n) ==
    IF path = "project" THEN p.exists
    ELSE p.exists /\ n = BinName /\ p.bin

\* the tree after a removal that did not throw
removeTree(path, p) ==
    IF path = "project" THEN NoProject ELSE [p EXCEPT !.bin = FALSE]

AnswerInputs == {Yes, <<"Y","E","S">>, <<"Y","e","s">>, <<"y">>, <<"n","o">>, <<>>}

\* cleanup(projectPath): nothing when the path does not exist; the
\* interactive revision returns unless the answer lower-cased is "yes";
\* a removal that throws is caught and reported as a warning, and the
\* directory it was removing is still there
cleanupNoRemoval(v, path, p, n, answer, rmOK) ==
    [proj |-> p, prompted |-> FALSE, attempted |-> FALSE, msgs |-> {}]
cleanupCaseSensitive(v, path, p, n, answer, rmOK) ==
    IF ~existsSync(path, p, n)
    THEN [proj |-> p, prompted |-> FALSE, attempted |-> FALSE, msgs |-> {}]
    ELSE IF v = "cli_confirm" /\ answer # Yes
    THEN [proj |-> p, prompted |-> TRUE, attempted |-> FALSE,
          msgs |-> {"warnWillRemove"}]
    ELSE IF rmOK
    THEN [proj |-> removeTree(path, p), prompted |-> v = "cli_confirm",
          attempted |-> TRUE,
          msgs |-> IF v = "cli_confirm" THEN {"warnWillRemove", "cleaned"}
                   ELSE {"cleaned"}]
    ELSE [proj |-> p, prompted |-> v = "cli_confirm", attempted |-> TRUE,
          msgs |-> IF v = "cli_confirm"
                   THEN {"warnWillRemove", "warnCleanupFailed"}
                   ELSE {"warnCleanupFailed"}]
cleanup(v, path, p, n, answer, rmOK) ==
    IF ~existsSync(path, p, n)
    THEN [proj |-> p, prompted |-> FALSE, attempted |-> FALSE, msgs |-> {}]
    ELSE IF v = "cli_confirm" /\ toLowerCase(answer) # Yes
    THEN [proj |-> p, prompted |-> TRUE, attempted |-> FALSE,
          msgs |-> {"warnWillRemove"}]
    ELSE IF rmOK
    THEN [proj |-> removeTree(path, p), prompted |-> v = "cli_confirm",
          attempted |-> TRUE,
          msgs |-> IF v = "cli_confirm" THEN {"warnWillRemove", "cleaned"}
                   ELSE {"cleaned"}]
    ELSE [proj |-> p, prompted |-> v = "cli_confirm", attempted |-> TRUE,
          msgs |-> IF v = "cli_confirm"
                   THEN {"warnWillRemove", "warnCleanupFailed"}
                   ELSE {"warnCleanupFailed"}]


-----------------------------------------------------------------------------
(* Inputs *)

CliVariants == {"cli_confirm", "cli_rmsync", "part_001", "part_003"}
Programs == CliVariants \cup {"setup_orm"}

\* revisions with checkSystemRequirements
HasPrereqCheck(v) == v \in {"cli_confirm", "cli_rmsync"}

\* project names given on the command line
NameInputs ==
    { <<>>,
      <<"m","y","-","a","p","p">>,
      <<"a","_","1">>,
      BinName,
      <<"s","r","c">>,
      <<"D","i","s","t">>,
      <<".",".","/","e","t","c">> }

\* characters of the names enumerated up to MaxNameLen
NameAlphabet == {"s", "r", "c", "S", "0", "-", "_", "/", ".", "\n"}

BoundedSeq(S, n) == UNION {[1..k -> S] : k \in 0..n}

AllNames ==
    BoundedSeq(NameAlphabet, MaxNameLen) \cup NameInputs \cup reservedNames
    \cup { <<"N","o","d","e","_","M","o","d","u","l","e","s">>,
           <<"P","U","B","L","I","C">>, <<"t","e","s","T">>,
           <<"s","r","c","\n">>, <<"t","e","s","t","s">> }

\* lines a template's .gitignore is made of
LineInputs ==
    { DotEnv,
      <<".","e","n","v",".","l","o","c","a","l">>,
      <<"d","i","s","t">> }

RECURSIVE JoinLines(_)
JoinLines(ls) ==
    IF Len(ls) = 0 THEN <<>>
    ELSE IF Len(ls) = 1 THEN ls[1]
    ELSE ls[1] \o NL \o JoinLines(Tail(ls))

\* texts of a .gitignore: up to MaxGitignoreLines different lines, the last
\* one with or without its newline
DistinctLines ==
    { ls \in BoundedSeq(LineInputs, MaxGitignoreLines) :
        \A i \in 1..Len(ls), j \in 1..Len(ls) : ls[i] = ls[j] => i = j }

GitignoreInputs ==
    { JoinLines(ls) : ls \in DistinctLines }
    \cup { JoinLines(ls) \o NL : ls \in DistinctLines \ {<<>>} }

OrmInputs == {"none", "prisma", "drizzle"}

\* what git clone leaves at the target path: the template repository, whose
\* .gitignore and .env.example are not fixed by this repository
TemplateProject(hasIgnore, ignore, hasExample) ==
    [exists |-> TRUE, bin |-> TRUE, git |-> "cloned", env |-> "absent",
     envExample |-> IF hasExample THEN "templateExample" ELSE "absent",
     hasGitignore |-> hasIgnore,
     gitignore |-> IF hasIgnore THEN ignore ELSE <<>>,
     hasPkg |-> TRUE, pkgName |-> TemplateName, pkgBin |-> TRUE,
     pkgVersion |-> "template", nodeModules |-> FALSE, ormFiles |-> {}]

-----------------------------------------------------------------------------
(* Initial states *)

InitCommon ==
    /\ exited = FALSE
    /\ exitCode = 0
    /\ cwd = "base"
    /\ verdict = "none"
    /\ prereq = "none"
    /\ log = <<>>
    /\ failedStep = "none"
    /\ msgs = {}
    /\ mutated = FALSE
    /\ cleanupCalls = 0
    /\ cleanupPaths = {}
    /\ rmAttempts = 0
    /\ prompts = 0
    /\ answers = {}
    /\ preCleanup = NoProject
    /\ sigint = "none"
    /\ dirAtSigint = FALSE

InitCli ==
    /\ variant \in CliVariants
    /\ name \in NameInputs
    /\ orm = "none"
    /\ pc = "startup"
    /\ proj \in {NoProject, ForeignProject}
    /\ InitCommon

\* setupORM is called on a project directory that exists, with or without
\* environment files already written by createEnvFile
InitOrm ==
    /\ variant = "setup_orm"
    /\ name = <<"m","y","-","a","p","p">>
    /\ orm \in OrmInputs
    /\ pc = "setupORM"
    /\ \E hasIgnore \in BOOLEAN, envDone \in BOOLEAN :
         proj = IF envDone
                THEN createEnvFile(TemplateProject(hasIgnore, DotEnv \o NL, FALSE), 0).proj
                ELSE TemplateProject(hasIgnore, DotEnv \o NL, FALSE)
    /\ InitCommon

Init == InitCli \/ InitOrm

-----------------------------------------------------------------------------
(* Steps *)

\* process.exit(1), or an exception nobody catches
Exit1KeepsStatus(step) ==
    /\ exited' = TRUE
    /\ exitCode' = exitCode
    /\ failedStep' = step
    /\ pc' = "done"
Exit1(step) ==
    /\ exited' = TRUE
    /\ exitCode' = 1
    /\ failedStep' = step
    /\ pc' = "done"

\* the step and its outcome are appended to the log
Logged(step, ok) == log' = Append(log, [step |-> step, ok |-> ok])

\* a SIGINT sent to the process group kills the subprocess of the running
\* step; node has received it too, and its handler waits for a turn of the
\* event loop
SigintConsumed ==
    /\ sigint' = IF sigint = "group" THEN "killedChild" ELSE sigint
    /\ dirAtSigint' = dirAtSigint

\* execSync returns normally only when its subprocess was not killed
NotInterrupted == sigint # "group"

NoCleanup ==
    /\ UNCHANGED <<cleanupCalls, cleanupPaths, rmAttempts, prompts, answers,
                   preCleanup>>
    /\ SigintConsumed

\* cleanup(path); process.exit(1) : the tail of every fatal failure.  p is
\* the target directory as the failed step left it.
CleanupAndExitRethrows(step, path, p, newMsgs) ==
    \E answer \in AnswerInputs, rmOK \in BOOLEAN :
        LET c == cleanup(variant, path, p, name, answer, rmOK) IN
        /\ proj' = c.proj
        /\ preCleanup' = p
        /\ SigintConsumed
        /\ cleanupCalls' = cleanupCalls + 1
        /\ cleanupPaths' = cleanupPaths \cup {path}
        /\ rmAttempts' = rmAttempts + (IF c.attempted THEN 1 ELSE 0)
        /\ prompts' = prompts + (IF c.prompted THEN 1 ELSE 0)
        /\ answers' = IF c.prompted THEN answers \cup {answer} ELSE answers
        /\ msgs' = msgs \cup newMsgs \cup c.msgs
                   \cup (IF c.attempted /\ ~rmOK THEN {"uncaught"} ELSE {})
        /\ mutated' = (mutated \/ (c.attempted /\ rmOK) \/ p # proj)
        /\ Logged(step, FALSE)
        /\ Exit1(IF c.attempted /\ ~rmOK THEN "cleanup" ELSE step)
CleanupAndExit(step, path, p, newMsgs) ==
    \E answer \in AnswerInputs, rmOK \in BOOLEAN :
        LET c == cleanup(variant, path, p, name, answer, rmOK) IN
        /\ proj' = c.proj
        /\ preCleanup' = p
        /\ SigintConsumed
        /\ cleanupCalls' = cleanupCalls + 1
        /\ cleanupPaths' = cleanupPaths \cup {path}
        /\ rmAttempts' = rmAttempts + (IF c.attempted THEN 1 ELSE 0)
        /\ prompts' = prompts + (IF c.prompted THEN 1 ELSE 0)
        /\ answers' = IF c.prompted THEN answers \cup {answer} ELSE answers
        /\ msgs' = msgs \cup newMsgs \cup c.msgs
        /\ mutated' = (mutated \/ (c.attempted /\ rmOK) \/ p # proj)
        /\ Logged(step, FALSE)
        /\ Exit1(step)

\* module load.  cli_confirm requires rimraf and readline-sync and part_001
\* imports chalk, which may be missing; part_001 (ensureDependencies) and
\* part_003 (ensureRimraf) run npm install for a helper that does not
\* resolve, and a failing npm install is an uncaught exception
Startup ==
    /\ pc = "startup"
    /\ variant \in CliVariants
    /\ \/ /\ pc' = "validate"
          /\ UNCHANGED <<exited, exitCode, failedStep, msgs, mutated, log>>
       \/ /\ variant \in {"cli_confirm", "part_001"}
          /\ Exit1("startup")
          /\ msgs' = msgs \cup {"uncaught"}
          /\ UNCHANGED <<mutated, log>>
       \/ /\ variant \in {"part_001", "part_003"}
          /\ mutated' = TRUE
          /\ \/ /\ pc' = "validate"
                /\ Logged("autoInstall", TRUE)
                /\ msgs' = msgs \cup {"installingHelper"}
                /\ UNCHANGED <<exited, exitCode, failedStep>>
             \/ /\ Exit1("startup")
                /\ Logged("autoInstall", FALSE)
                /\ msgs' = msgs \cup {"installingHelper", "uncaught"}
    /\ UNCHANGED <<variant, name, orm, cwd, proj, verdict, prereq>>
    /\ NoCleanup

\* validateProjectName(process.argv[2])
ValidateProjectName ==
    /\ pc = "validate"
    /\ LET r == validateProjectName(variant, name, proj.exists) IN
       /\ verdict' = r
       /\ IF r = "ok"
          THEN /\ pc' = IF HasPrereqCheck(variant) THEN "prereq" ELSE "clone"
               /\ UNCHANGED <<exited, exitCode, failedStep>>
          ELSE Exit1("validate")
       /\ msgs' = IF r = "ok" THEN msgs ELSE msgs \cup {"err_" \o r}
    /\ UNCHANGED <<variant, name, orm, cwd, proj, prereq, log, mutated>>
    /\ NoCleanup

\* if (!checkSystemRequirements()) process.exit(1)
CheckSystemRequirements ==
    /\ pc = "prereq"
    /\ \E r \in {"ok", "oldNode", "missingTool"} :
        /\ prereq' = r
        /\ r = "ok" => NotInterrupted
        /\ IF r = "ok"
           THEN /\ pc' = "clone"
                /\ UNCHANGED <<exited, exitCode, failedStep, msgs>>
           ELSE /\ Exit1("prereq")
                /\ msgs' = msgs \cup {"err_" \o r}
    /\ UNCHANGED <<variant, name, orm, cwd, proj, verdict, log, mutated>>
    /\ NoCleanup

\* runCommand(`git clone ${repoUrl} ${projectName}`); a failed clone may or
\* may not leave the directory it created
AfterClone(v) == IF v = "part_001" THEN "chdir"
                 ELSE IF v = "part_003" THEN "install" ELSE "rmbin"

Clone ==
    /\ pc = "clone"
    /\ \/ /\ NotInterrupted
          /\ \E hasIgnore \in BOOLEAN, ignore \in GitignoreInputs,
               hasExample \in BOOLEAN :
               /\ hasIgnore \/ ignore = <<>>
               /\ proj' = TemplateProject(hasIgnore, ignore, hasExample)
          /\ pc' = AfterClone(variant)
          /\ Logged("clone", TRUE)
          /\ mutated' = TRUE
          /\ UNCHANGED <<exited, exitCode, failedStep, msgs>>
          /\ NoCleanup
       \/ \E created \in BOOLEAN :
            CleanupAndExit("clone", "project",
                           IF created THEN ForeignProject ELSE proj,
                           {"err_command", "err_clone"})
    /\ UNCHANGED <<variant, name, orm, cwd, verdict, prereq>>


\* the top-level handler createTemplate().catch(...): it computes the path
\* anew from process.cwd(), calls cleanup on it and exits with 1
TopLevelCatch(step, p) ==
    CleanupAndExit(step, CatchPath(cwd'), p, {"unexpected"})

\* cli.js: runCommand(`cd ${projectName} && rimraf bin`) (or rm -rf bin);
\* part_003: rimraf.sync(path.join(projectPath, "bin")), which may throw
RemoveBin ==
    /\ pc = "rmbin"
    /\ cwd' = cwd
    /\ \/ /\ NotInterrupted
          /\ proj' = [proj EXCEPT !.bin = FALSE]
          /\ pc' = IF variant = "part_003" THEN "gitrm" ELSE "install"
          /\ Logged("rmbin", TRUE)
          /\ mutated' = TRUE
          /\ UNCHANGED <<exited, exitCode, failedStep, msgs>>
          /\ NoCleanup
       \/ /\ variant # "part_003"
          /\ CleanupAndExit("rmbin", "project", proj,
                            {"err_command", "err_rmbin"})
       \/ /\ variant = "part_003"
          /\ TopLevelCatch("rmbin", proj)
    /\ UNCHANGED <<variant, name, orm, verdict, prereq>>

\* part_001: process.chdir(projectPath)
Chdir ==
    /\ pc = "chdir"
    /\ cwd' = "project"
    /\ pc' = "pkgjson"
    /\ UNCHANGED <<variant, name, orm, exited, exitCode, proj, verdict,
                   prereq, log, failedStep, msgs, mutated>>
    /\ NoCleanup

\* part_001: updatePackageJson(projectPath, projectName); JSON.parse, the
\* read and the write may throw, and nothing in createTemplate catches it
updatePackageJson(p, n) ==
    [p EXCEPT !.pkgName = n, !.pkgVersion = "0.1.0", !.pkgBin = FALSE]

UpdatePackageJson ==
    /\ pc = "pkgjson"
    /\ cwd' = cwd
    /\ \/ /\ proj' = updatePackageJson(proj, name)
          /\ pc' = "install"
          /\ Logged("pkgjson", TRUE)
          /\ mutated' = TRUE
          /\ UNCHANGED <<exited, exitCode, failedStep, msgs>>
          /\ NoCleanup
       \/ TopLevelCatch("pkgjson", proj)
    /\ UNCHANGED <<variant, name, orm, verdict, prereq>>

\* runCommand(`cd ${projectName} && npm install`) (part_001: "npm install"
\* in the project directory); a failed install may have written part of
\* node_modules
AfterInstall(v) == IF v = "part_001" THEN "gitrm"
                   ELSE IF v = "part_003" THEN "rmbin" ELSE "env"

\* the path install's failure branch hands to cleanup: projectPath, computed
\* from process.cwd() before any chdir
InstallCleanupPathFromCwd(dir) == CatchPath(dir)
InstallCleanupPath(dir) == "project"

Install ==
    /\ pc = "install"
    /\ \/ /\ NotInterrupted
          /\ proj' = [proj EXCEPT !.nodeModules = TRUE]
          /\ pc' = AfterInstall(variant)
          /\ Logged("install", TRUE)
          /\ mutated' = TRUE
          /\ UNCHANGED <<exited, exitCode, failedStep, msgs>>
          /\ NoCleanup
       \/ \E partial \in BOOLEAN :
            CleanupAndExit("install", InstallCleanupPath(cwd),
                           [proj EXCEPT !.nodeModules = partial],
                           {"err_command", "err_install"})
    /\ UNCHANGED <<variant, name, orm, cwd, verdict, prereq>>

\* cli.js: if (!createEnvFile(projectPath)) { cleanup; process.exit(1) }
CreateEnvFile ==
    /\ pc = "env"
    /\ \E failAt \in EnvFailPoints :
        LET r == createEnvFile(proj, failAt) IN
        IF r.ok
        THEN /\ proj' = r.proj
             /\ pc' = "gitreinit"
             /\ Logged("env", TRUE)
             /\ mutated' = TRUE
             /\ UNCHANGED <<exited, exitCode, failedStep, msgs>>
             /\ NoCleanup
        ELSE CleanupAndExit("env", "project", r.proj, {"err_env"})
    /\ UNCHANGED <<variant, name, orm, cwd, verdict, prereq>>

\* cli.js: runCommand(`cd ${projectName} && rimraf .git && git init &&
\* git add . && git commit -m "Initial commit"`); the chain stops at the
\* first command that fails or when the timeout kills it, and a false
\* result only prints a warning
GitReinitOutcomes == {"cloned", "none", "fresh", "committed"}

GitReinit ==
    /\ pc = "gitreinit"
    /\ \E g \in GitReinitOutcomes :
        /\ g = "committed" => NotInterrupted
        /\ proj' = [proj EXCEPT !.git = g]
        /\ Logged("gitreinit", g = "committed")
        /\ msgs' = IF g = "committed" THEN msgs
                   ELSE msgs \cup {"err_command", "warnGit"}
        /\ mutated' = (mutated \/ g # proj.git)
    /\ pc' = "finish"
    /\ UNCHANGED <<variant, name, orm, exited, exitCode, cwd, verdict,
                   prereq, failedStep>>
    /\ NoCleanup

\* part_001, part_003: rimraf.sync(path.join(projectPath, ".git")), which
\* may throw
GitRm ==
    /\ pc = "gitrm"
    /\ cwd' = cwd
    /\ \/ /\ proj' = [proj EXCEPT !.git = "none"]
          /\ pc' = "gitinit"
          /\ Logged("gitrm", TRUE)
          /\ mutated' = TRUE
          /\ UNCHANGED <<exited, exitCode, failedStep, msgs>>
          /\ NoCleanup
       \/ TopLevelCatch("gitrm", proj)
    /\ UNCHANGED <<variant, name, orm, verdict, prereq>>

\* part_001, part_003: runCommand('git init && git add . && git commit ...')
\* with its result ignored
GitInit ==
    /\ pc = "gitinit"
    /\ \E g \in {"none", "fresh", "committed"} :
        /\ g = "committed" => NotInterrupted
        /\ proj' = [proj EXCEPT !.git = g]
        /\ Logged("gitinit", g = "committed")
        /\ msgs' = IF g = "committed" THEN msgs ELSE msgs \cup {"err_command"}
        /\ mutated' = (mutated \/ g # proj.git)
    /\ pc' = "finish"
    /\ UNCHANGED <<variant, name, orm, exited, exitCode, cwd, verdict,
                   prereq, failedStep>>
    /\ NoCleanup

\* the success message, after which createTemplate returns and the process
\* ends with status 0
Finish ==
    /\ pc = "finish"
    /\ msgs' = msgs \cup {"success"}
    /\ exited' = TRUE
    /\ pc' = "done"
    /\ UNCHANGED <<variant, name, orm, exitCode, cwd, proj, verdict, prereq,
                   log, failedStep, mutated>>
    /\ NoCleanup

-----------------------------------------------------------------------------
(* SIGINT *)

\* positions at which the script is blocked in execSync on a subprocess
AtSubprocess ==
    \/ pc \in {"prereq", "clone", "install", "gitreinit", "gitinit"}
    \/ pc = "rmbin" /\ variant # "part_003"

\* the operator interrupts the run.  process.on("SIGINT", ...) registers a
\* handler that prints a message and calls process.exit(1), but a handler
\* runs on a turn of the event loop and createTemplate has no await: every
\* step is a synchronous call, so the handler does not run while the script
\* is at work.  A signal sent to node alone stays pending; a signal sent to
\* the foreground process group (Ctrl-C) also kills the subprocess the
\* script is blocked on, and execSync then throws like for any failed
\* command.  While the module is still loading, the handler is not yet
\* registered and the signal ends the process at once (status 128 + 2).
Sigint ==
    /\ variant \in CliVariants
    /\ ~exited
    /\ sigint = "none"
    /\ dirAtSigint' = proj.exists
    /\ \/ /\ pc = "startup"
          /\ sigint' = "default"
          /\ exited' = TRUE
          /\ exitCode' = 130
          /\ pc' = "done"
       \/ /\ AtSubprocess
          /\ sigint' = "group"
          /\ UNCHANGED <<pc, exited, exitCode>>
       \/ /\ pc # "startup"
          /\ sigint' = "pending"
          /\ UNCHANGED <<pc, exited, exitCode>>
    /\ UNCHANGED <<variant, name, orm, cwd, proj, verdict, prereq, log,
                   failedStep, msgs, mutated, cleanupCalls, cleanupPaths,
                   rmAttempts, prompts, answers, preCleanup>>

-----------------------------------------------------------------------------
(* setupORM *)

OrmFailPoints == 0..6

\* the k-th filesystem or subprocess call of setupORM(targetDir, orm):
\* setupPrisma when orm is "prisma", setupDrizzle otherwise, then the two
\* writes of setupEnvFile
OrmStep(p, o, k) ==
    LET isPrisma == (o = "prisma")
        envContent == IF isPrisma THEN "prismaEnv" ELSE "drizzleEnv"
    IN  IF k = 1 THEN [p EXCEPT !.ormFiles =
                         @ \cup {IF isPrisma THEN "prisma/" ELSE "drizzle/"}]
        ELSE IF k = 2 THEN [p EXCEPT !.ormFiles =
                         @ \cup {IF isPrisma THEN "prisma/schema.prisma"
                                 ELSE "drizzle/schema.ts"}]
        ELSE IF k = 3 THEN [p EXCEPT !.ormFiles = @ \cup {"src/lib/db.ts"}]
        ELSE IF k = 4 THEN (IF isPrisma THEN p
                            ELSE [p EXCEPT !.ormFiles =
                                    @ \cup {"drizzle.config.ts"}])
        ELSE IF k = 5 THEN [p EXCEPT !.env = envContent]
        ELSE [p EXCEPT !.envExample = envContent]

RECURSIVE OrmSteps(_, _, _, _)
OrmSteps(p, o, k, last) ==
    IF k > last THEN p ELSE OrmSteps(OrmStep(p, o, k), o, k + 1, last)

\* failAt = 0: all six calls succeed; failAt = k: the k-th call throws,
\* the error is logged and rethrown
setupORM(p, o, failAt) ==
    [ok |-> failAt = 0,
     proj |-> OrmSteps(p, o, 1, IF failAt = 0 THEN 6 ELSE failAt - 1)]

SetupORM ==
    /\ pc = "setupORM"
    /\ variant = "setup_orm"
    /\ \E failAt \in OrmFailPoints :
        LET r == setupORM(proj, orm, failAt) IN
        /\ proj' = r.proj
        /\ Logged("setupORM", r.ok)
        /\ mutated' = (mutated \/ r.proj # proj)
        /\ msgs' = IF r.ok THEN msgs ELSE msgs \cup {"err_orm"}
        /\ failedStep' = IF r.ok THEN "none" ELSE "setupORM"
    /\ pc' = "returned"
    /\ UNCHANGED <<variant, name, orm, exited, exitCode, cwd, verdict, prereq>>
    /\ NoCleanup

-----------------------------------------------------------------------------
(* Specifications *)

Next ==
    \/ Startup
    \/ ValidateProjectName
    \/ CheckSystemRequirements
    \/ Clone
    \/ RemoveBin
    \/ Chdir
    \/ UpdatePackageJson
    \/ Install
    \/ CreateEnvFile
    \/ GitReinit
    \/ GitRm
    \/ GitInit
    \/ Finish
    \/ SetupORM

Spec == Init /\ [][Next]_vars

\* every step is a blocking call that returns, so a run that can take a
\* step takes it
FairSpec == Spec /\ WF_vars(Next)

\* a run during which the operator may send SIGINT once
NextSigint == Next \/ Sigint

SpecSigint == Init /\ [][NextSigint]_vars

\* validateProjectName on every name up to MaxNameLen
InitValidate ==
    /\ variant \in CliVariants
    /\ name \in AllNames
    /\ orm = "none"
    /\ pc = "validate"
    /\ proj \in {NoProject, ForeignProject}
    /\ InitCommon

SpecValidate == InitValidate /\ [][ValidateProjectName]_vars

TypeOK ==
    /\ variant \in Programs
    /\ exited \in BOOLEAN
    /\ exitCode \in {0, 1, 130}
    /\ sigint \in {"none", "group", "killedChild", "pending", "default"}
    /\ cwd \in {"base", "project"}
    /\ proj.exists \in BOOLEAN
    /\ mutated \in BOOLEAN
    /\ cleanupCalls \in 0..2

-----------------------------------------------------------------------------
(* Properties *)

Steps(l) == {l[i].step : i \in 1..Len(l)}
FailedSteps(l) == {l[i].step : i \in {k \in 1..Len(l) : ~l[k].ok}}

\* the interactive cleanup asked and the operator did not answer "yes"
Declined ==
    /\ variant = "cli_confirm"
    /\ prompts = 1
    /\ rmAttempts = 0
    /\ \A a \in answers : toLowerCase(a) # Yes

\* cleanup's removal call threw
RemovalThrew == "warnCleanupFailed" \in msgs

\* C1 as stated: after a failed git clone the target directory does not
\* exist once the invocation has terminated, whatever cleanup's existence
\* check, prompt and removal call did.
C1_Original_NoDirAfterFetchFailure ==
    (exited /\ failedStep = "clone") => ~proj.exists

\* C1 amended: after a failed git clone the target directory does not exist
\* once the invocation has terminated, unless cleanup's removal call threw
\* or, in the interactive revision, the operator did not answer "yes".
C1_NoDirAfterFetchFailure ==
    (exited /\ failedStep = "clone")
        => (~proj.exists \/ RemovalThrew \/ Declined)

C1_Witness ==
    /\ exited
    /\ failedStep = "clone"
    /\ rmAttempts = 1
    /\ "cleaned" \in msgs
    /\ ~proj.exists

\* C2 as stated: when npm install fails after a successful clone, cleanup is
\* called on the target directory, the directory is removed and the exit
\* status is 1, in every revision.
C2_Original_InstallFailureRemovesDir ==
    (exited /\ failedStep = "install")
        => /\ cleanupCalls = 1
           /\ cleanupPaths = {"project"}
           /\ ~proj.exists
           /\ exitCode = 1

\* C2 amended: when npm install fails after a successful clone, cleanup is
\* called once on the target directory and the exit status is 1, in every
\* revision; the directory is removed unless the removal call threw or, in
\* the interactive revision, the operator did not answer "yes".
C2_InstallFailureCleansUp ==
    (exited /\ failedStep = "install")
        => /\ cleanupCalls = 1
           /\ cleanupPaths = {"project"}
           /\ exitCode = 1
           /\ (~proj.exists \/ RemovalThrew \/ Declined)

C2_Witness ==
    /\ variant = "part_001"
    /\ cwd = "project"
    /\ exited
    /\ failedStep = "install"
    /\ "clone" \in Steps(log) \ FailedSteps(log)
    /\ rmAttempts = 1
    /\ ~proj.exists

\* C3: a run that ends because validation or the prerequisite check failed
\* has performed no write, create, remove or install, module start-up
\* included.
C3_NoMutationBeforeAbort ==
    (exited /\ failedStep \in {"validate", "prereq"}) => ~mutated

\* C4: validateProjectName answers invalid-name exactly for the empty name,
\* a name with a character outside [A-Za-z0-9_-] and a name that lower-cased
\* is reserved; any other name whose target path is free passes; the
\* revisions with the anchored regex and those with the negated class agree
\* on every name.
C4_Allowed ==
    {"a","b","c","d","e","f","g","h","i","j","k","l","m","n","o","p","q",
     "r","s","t","u","v","w","x","y","z","A","B","C","D","E","F","G","H",
     "I","J","K","L","M","N","O","P","Q","R","S","T","U","V","W","X","Y",
     "Z","0","1","2","3","4","5","6","7","8","9","_","-"}

C4_Lower(c) ==
    CASE c = "A" -> "a" [] c = "B" -> "b" [] c = "C" -> "c" [] c = "D" -> "d"
      [] c = "E" -> "e" [] c = "F" -> "f" [] c = "G" -> "g" [] c = "H" -> "h"
      [] c = "I" -> "i" [] c = "J" -> "j" [] c = "K" -> "k" [] c = "L" -> "l"
      [] c = "M" -> "m" [] c = "N" -> "n" [] c = "O" -> "o" [] c = "P" -> "p"
      [] c = "Q" -> "q" [] c = "R" -> "r" [] c = "S" -> "s" [] c = "T" -> "t"
      [] c = "U" -> "u" [] c = "V" -> "v" [] c = "W" -> "w" [] c = "X" -> "x"
      [] c = "Y" -> "y" [] c = "Z" -> "z" [] OTHER -> c

C4_ShouldReject(n) ==
    \/ n = <<>>
    \/ \E i \in 1..Len(n) : n[i] \notin C4_Allowed
    \/ [i \in 1..Len(n) |-> C4_Lower(n[i])] \in reservedNames

C4_InvalidName(r) == r \in {"missing", "invalidChars", "reserved"}

C4_ValidateVerdict ==
    /\ verdict # "none" =>
         /\ C4_InvalidName(verdict) <=> C4_ShouldReject(name)
         /\ (~C4_ShouldReject(name) /\ ~proj.exists) => verdict = "ok"
         /\ verdict = "ok" => ~exited
         /\ verdict # "ok" => (exited /\ exitCode = 1)
    /\ \A v \in CliVariants, w \in CliVariants :
         validateProjectName(v, name, proj.exists)
             = validateProjectName(w, name, proj.exists)

C4_Witness ==
    /\ verdict = "reserved"
    /\ name = <<"S","r","c">>
    /\ UsesAnchoredRegex(variant)

\* C5: after createEnvFile has returned true the project's .gitignore holds
\* exactly one ".env" entry, whatever the .gitignore was before.
C5_ExactlyOneEnvEntry ==
    (pc = "gitreinit")
        => (proj.hasGitignore /\ CountEnvEntries(proj.gitignore) = 1)

\* C6: a run of any revision that ends with exit code 0 leaves a project
\* directory holding .env, .env.example and a .gitignore that lists .env,
\* and no bin/ subtree.
C6_SuccessLayout ==
    (exited /\ exitCode = 0)
        => /\ proj.exists
           /\ proj.env # "absent"
           /\ proj.envExample # "absent"
           /\ proj.hasGitignore
           /\ CountEnvEntries(proj.gitignore) >= 1
           /\ ~proj.bin

GitStepFailed ==
    FailedSteps(log) \cap {"gitreinit", "gitrm", "gitinit"} # {}

C8_GitFailureNotFatal ==
    GitStepFailed
        => /\ "warnGit" \in msgs
           /\ cleanupCalls = 0
           /\ proj.exists
           /\ exited => exitCode = 0

\* C9: every invocation of a CLI revision terminates, and its exit status
\* never changes afterwards; the status is 1 when validation failed, the
\* prerequisite check failed, a fatal step failed or an exception was
\* thrown, and 0 only when validation, the prerequisite check (where the
\* revision has one) and every fatal step succeeded; no run that exits 1
\* has printed the success message.
FatalSteps == {"autoInstall", "clone", "rmbin", "pkgjson", "install", "env", "gitrm"}

C9_SomethingFailed ==
    \/ verdict \notin {"none", "ok"}
    \/ prereq \notin {"none", "ok"}
    \/ FailedSteps(log) \cap FatalSteps # {}
    \/ msgs \cap {"uncaught", "unexpected"} # {}

C9_ExitState ==
    /\ C9_SomethingFailed => (exited /\ exitCode = 1)
    /\ (exited /\ exitCode = 0) =>
          /\ verdict = "ok"
          /\ HasPrereqCheck(variant) => prereq = "ok"
          /\ FailedSteps(log) \cap FatalSteps = {}
          /\ {"clone", "install"} \subseteq Steps(log)
          /\ "success" \in msgs
    /\ exitCode = 1 => (exited /\ C9_SomethingFailed /\ "success" \notin msgs)

C10_Rank(step) ==
    CASE step = "clone" -> 1
      [] step = "rmbin" -> 2
      [] step = "pkgjson" -> 3
      [] step = "env" -> 4
      [] step = "install" -> 5
      [] OTHER -> 6

C10_RunSteps == SelectSeq(log, LAMBDA e : e.step # "autoInstall")

C10_SpecOrder ==
    LET l == C10_RunSteps IN
    /\ \A i \in 1..Len(l), j \in 1..Len(l) :
         (i < j /\ C10_Rank(l[j].step) < 6)
             => C10_Rank(l[i].step) < C10_Rank(l[j].step)
    /\ "install" \in Steps(l) => {"rmbin", "env"} \subseteq Steps(l)
    /\ (l # <<>> /\ variant \in CliVariants) =>
         (verdict = "ok" /\ (HasPrereqCheck(variant) => prereq = "ok"))

\* C11: a SIGINT delivered at any point of an invocation, also while the
\* subprocess of a step runs, ends the process with a non-zero status and
\* does not trigger cleanup: the target directory exists after termination
\* exactly if it existed when the signal arrived.
C11_SigintNoCleanup ==
    (sigint # "none" /\ exited)
        => /\ exitCode # 0
           /\ sigint = "killedChild" => cleanupCalls = 0
           /\ proj.exists = dirAtSigint

\* the path cleanup was given existed when cleanup was called
C_PathExisted ==
    \/ cleanupPaths = {"project"} /\ preCleanup.exists
    \/ /\ cleanupPaths = {"nested"}
       /\ preCleanup.exists /\ preCleanup.bin /\ name = BinName

\* the operator answered "yes" in some letter case
C_AnsweredYes ==
    \E a \in answers : [i \in 1..Len(a) |-> C4_Lower(a[i])] = Yes

\* C12: whatever cleanup does after a fatal step failed (path absent,
\* removal done, removal throwing, operator declining), the run ends on the
\* same path with status 1 and the failed step stays the reported cause; a
\* removal that throws is only warned about and never rethrown.
C12_CleanupKeepsExitPath ==
    cleanupCalls >= 1
        => /\ exited /\ exitCode = 1 /\ pc = "done"
           /\ cleanupCalls = 1
           /\ log # <<>>
           /\ ~log[Len(log)].ok
           /\ failedStep = log[Len(log)].step
           /\ msgs \cap {"err_command", "err_env", "unexpected"} # {}
           /\ "uncaught" \notin msgs
           /\ (rmAttempts = 1 /\ proj = preCleanup) => RemovalThrew

C12_Witness ==
    /\ exited
    /\ exitCode = 1
    /\ failedStep = "install"
    /\ rmAttempts = 1
    /\ RemovalThrew
    /\ proj.exists

\* C13: in the interactive revision cleanup removes the target directory
\* only when it exists and the operator's answer is "yes" in any letter
\* case; after any other answer the directory and its contents are as they
\* were; and no prompt is shown when the directory does not exist.
C13_ConfirmedRemoval ==
    (variant = "cli_confirm" /\ cleanupCalls = 1)
        => /\ prompts = (IF preCleanup.exists THEN 1 ELSE 0)
           /\ ~preCleanup.exists => answers = {}
           /\ (rmAttempts = 1) <=> (preCleanup.exists /\ C_AnsweredYes)
           /\ rmAttempts = 0 => proj = preCleanup

C13_Witness ==
    /\ variant = "cli_confirm"
    /\ answers = {<<"Y","E","S">>}
    /\ prompts = 1
    /\ rmAttempts = 1
    /\ "cleaned" \in msgs
    /\ ~proj.exists

\* C14: every run of any revision that ends with exit code 0 leaves a
\* package.json whose name is the validated project name and which has no
\* bin declaration.
C14_PackageJsonRewritten ==
    (exited /\ exitCode = 0)
        => /\ proj.hasPkg
           /\ proj.pkgName = name
           /\ ~proj.pkgBin

\* C15: after setupORM(targetDir, orm) returned without error the ORM
\* artifacts are those of the choice: for prisma prisma/schema.prisma and
\* the database-client file, for drizzle drizzle/schema.ts,
\* drizzle.config.ts and the database-client file, for none nothing; and
\* the environment files hold the placeholders of that choice.
C15_Files(p) == {f \in p.ormFiles : f \notin {"prisma/", "drizzle/"}}

C15_OrmArtifacts ==
    (variant = "setup_orm" /\ pc = "returned" /\ failedStep = "none")
        => /\ orm = "prisma" =>
                /\ C15_Files(proj) = {"prisma/schema.prisma", "src/lib/db.ts"}
                /\ proj.env = "prismaEnv" /\ proj.envExample = "prismaEnv"
           /\ orm = "drizzle" =>
                /\ C15_Files(proj) = {"drizzle/schema.ts", "drizzle.config.ts",
                                      "src/lib/db.ts"}
                /\ proj.env = "drizzleEnv" /\ proj.envExample = "drizzleEnv"
           /\ orm = "none" =>
                /\ proj.ormFiles = {}
                /\ proj.env \notin {"prismaEnv", "drizzleEnv"}
                /\ proj.envExample \notin {"prismaEnv", "drizzleEnv"}

\* C16: within one invocation no step runs twice and none runs after a
\* fatal step has failed.
C16_StepsOnce ==
    /\ \A i \in 1..Len(log), j \in 1..Len(log) :
         log[i].step = log[j].step => i = j
    /\ \A i \in 1..Len(log) :
         (~log[i].ok /\ log[i].step \in FatalSteps) => i = Len(log)

\* the fatal steps of the run proper, whose failure is followed by cleanup
C16_RunFatalSteps == {"clone", "rmbin", "pkgjson", "install", "env", "gitrm"}

C17_CatchCleansProject ==
    (variant = "part_001" /\ exited /\ failedStep \in {"pkgjson", "gitrm"})
        => /\ exitCode = 1
           /\ cleanupPaths = {"project"}
           /\ (~proj.exists \/ RemovalThrew)

====
